---- MODULE Spec2Model ----
(***************************************************************************)
(* A model of pochita's DroplessArena<T> (src/src/lib.rs): a bump-pointer  *)
(* arena over a growing list of chunks.                                    *)
(*                                                                         *)
(* A pointer *mut T is modelled as [chunk, off]: the index of the chunk    *)
(* whose storage it was derived from (0 for the null pointer) and its      *)
(* distance from that chunk's first element, in elements.  Chunk storage   *)
(* is never moved (it is a boxed slice behind a raw pointer), so a chunk's *)
(* index in `chunks` names its storage.                                    *)
(***************************************************************************)
EXTENDS Integers, Sequences, FiniteSets, TLC

\* ------------------------------------------------------------------ bounds

\* Operations performed on one arena in one behaviour.
MaxOps == 3
\* Longest source slice / string (in elements / characters) passed in.
MaxLen == 2
\* Largest count passed to reserve, ensure_capacity and can_allocate.
MaxN == 4
\* Single-element allocations in a behaviour of SpecAlloc.
MaxAllocs == 24

\* ------------------------------------------------------- program constants

PAGE == 4096
HUGE_PAGE == 2097152

\* usize::MAX and isize::MAX of the modelled target, whose machine word is
\* 31 bits wide; every byte count below is computed without exceeding it.
USIZE_MAX == 2147483647
ISIZE_MAX == 1073741823

\* size_of::<T>() of the element types the arena is instantiated with:
\* u8; a 1 KiB record; a record larger than PAGE for which
\* HUGE_PAGE / size / 2 is 2; and one so large that HUGE_PAGE / size / 2
\* is 0, two of them fit no block and four of them overflow the word.
ElemSizes == {1, 1024, 524288, 536870912}

\* Values of type T stored in the arena (for u8, bytes).
Values == {65, 66}

\* Unicode scalar values of the characters strings are made of: one that
\* UTF-8 encodes in one byte, one in two, one in three.
Chars == {65, 233, 8364}

\* What a read of a never-written slot is reported as.
Uninit == -1

\* No count / no call.
None == -1

VARIABLES
    size,       \* size_of::<T>()
    start,      \* DroplessArena::start
    end,        \* DroplessArena::end
    chunks,     \* DroplessArena::chunks: the capacity of each chunk's storage
    mem,        \* written slots: <<chunk, off>> -> value
    handles,    \* every view returned by an allocation call, in call order
    alive,      \* the arena has not been dropped
    released,   \* released[i]: times chunk i's storage was deallocated
    dropped,    \* slots on which a per-element destructor was run
    last,       \* the last call: its name, arguments and result
    nops,       \* calls made so far
    cloning     \* the alloc_slice_clone call whose loop is running, if any

vars == <<size, start, end, chunks, mem, handles, alive, released, dropped, last, nops, cloning>>

arena == <<start, end, chunks>>

\* ---------------------------------------------------------------- helpers

Min(a, b) == IF a <= b THEN a ELSE b

Max(a, b) == IF a >= b THEN a ELSE b

Null == [chunk |-> 0, off |-> 0]

\* <*mut T>::add
PtrAdd(p, n) == [chunk |-> p.chunk, off |-> p.off + n]

\* usize::checked_mul: None on overflow of the machine word.
checked_mul(a, b) ==
    IF a = 0 \/ b = 0 THEN 0
    ELSE IF a > USIZE_MAX \div b THEN None
    ELSE a * b

\* The runs of at most n consecutive elements of the cyclic pattern p.
RunsOf(p, n) == {[k \in 1..len |-> p[((i + k - 2) % Len(p)) + 1]] : i \in 1..Len(p), len \in 0..n}

\* Source slices: runs of the values, at most MaxLen long.
Slices == RunsOf(<<65, 66>>, MaxLen)

\* Source strings: runs of the characters, at most MaxLen long.
Strs == RunsOf(<<65, 233, 8364>>, MaxLen)

\* ------------------------------------------------------------------ Chunk

\* Chunk::new succeeds: Vec::with_capacity panics ("capacity overflow")
\* when the storage would exceed isize::MAX bytes.
ChunkNewOk(capacity) == checked_mul(capacity, size) # None /\ checked_mul(capacity, size) <= ISIZE_MAX

\* Chunk::len
ChunkLen(cs, i) == cs[i]

\* Chunk::start
ChunkStart(i) == [chunk |-> i, off |-> 0]

\* Chunk::end
ChunkEnd(cs, i) == PtrAdd(ChunkStart(i), ChunkLen(cs, i))

\* ---------------------------------------------------------- DroplessArena

\* end.addr() - start.addr(), in bytes.  Both pointers are derived from the
\* same chunk (or are both null), so the distance is the offset difference.
AvailableBytes(s, e) == (e.off - s.off) * size

\* can_allocate panics: checked_mul(...).unwrap() on None.
CanAllocatePanics(additional) == checked_mul(additional, size) = None

\* can_allocate that wants a byte to spare.
CanAllocateIn_Strict(s, e, additional) == AvailableBytes(s, e) > checked_mul(additional, size)

\* can_allocate, when it returns.
CanAllocateIn(s, e, additional) == AvailableBytes(s, e) >= checked_mul(additional, size)

can_allocate(additional) == CanAllocateIn(start, end, additional)

\* The capacity computed without the doubling.
Baseline_NoDouble(cs) ==
    IF Len(cs) > 0
    THEN Min(ChunkLen(cs, Len(cs)), (HUGE_PAGE \div size) \div 2)
    ELSE PAGE \div size

\* The capacity doubled without the HUGE_PAGE cap.
Baseline_NoCap(cs) ==
    IF Len(cs) > 0
    THEN ChunkLen(cs, Len(cs)) * 2
    ELSE PAGE \div size

\* The capacity reserve computes before `additional.max(capacity)`.
Baseline(cs) ==
    IF Len(cs) > 0
    THEN Min(ChunkLen(cs, Len(cs)), (HUGE_PAGE \div size) \div 2) * 2
    ELSE PAGE \div size

\* reserve that ignores `additional`.
ReserveCapacity_NoMax(cs, additional) == Baseline(cs)

\* The capacity of the chunk reserve(additional) creates.
ReserveCapacity(cs, additional) == Max(additional, Baseline(cs))

\* The arena's fields, threaded through the calls one operation makes.
\* `reserved` notes the argument of the reserve call the operation made
\* (None when it made none), `panicked` that the operation unwound.
Self == [start |-> start, end |-> end, chunks |-> chunks, reserved |-> None, panicked |-> FALSE]

Panicked(a) == [a EXCEPT !.panicked = TRUE]

\* reserve that resizes the latest chunk instead of pushing a new one.
ReserveOn_InPlace(a, additional) ==
    LET capacity == ReserveCapacity(a.chunks, additional)
        i == Max(Len(a.chunks), 1)
        cs == IF Len(a.chunks) = 0 THEN <<capacity>> ELSE [a.chunks EXCEPT ![i] = capacity]
    IN  IF ~ChunkNewOk(capacity) THEN Panicked(a)
        ELSE [a EXCEPT !.start = ChunkStart(i), !.end = ChunkEnd(cs, i),
                       !.chunks = cs, !.reserved = additional]

\* reserve
ReserveOn(a, additional) ==
    LET capacity == ReserveCapacity(a.chunks, additional)
        i == Len(a.chunks) + 1
        cs == Append(a.chunks, capacity)
    IN  IF ~ChunkNewOk(capacity) THEN Panicked(a)
        ELSE [a EXCEPT !.start = ChunkStart(i), !.end = ChunkEnd(cs, i),
                       !.chunks = cs, !.reserved = additional]

\* ensure_capacity that reserves without asking can_allocate.
EnsureCapacityOn_Always(a, additional) ==
    IF CanAllocatePanics(additional) THEN Panicked(a) ELSE ReserveOn(a, additional)

\* ensure_capacity that never reserves.
EnsureCapacityOn_Never(a, additional) ==
    IF CanAllocatePanics(additional) THEN Panicked(a) ELSE a

\* ensure_capacity (release build: the debug_assert is compiled out)
EnsureCapacityOn(a, additional) ==
    IF CanAllocatePanics(additional) THEN Panicked(a)
    ELSE IF ~CanAllocateIn(a.start, a.end, additional) THEN ReserveOn(a, additional)
    ELSE a

\* alloc_raw_slice: the arena after the call; the pointer returned is the
\* `start` ensure_capacity left (RawSliceDst).
RawSliceDst(a, len) == EnsureCapacityOn(a, len).start

\* alloc_raw_slice that does not call ensure_capacity.
AllocRawSliceOn_NoEnsure(a, len) == [a EXCEPT !.start = PtrAdd(a.start, len)]

\* alloc_raw_slice that leaves `start` where it was.
AllocRawSliceOn_NoAdvance(a, len) == EnsureCapacityOn(a, len)

AllocRawSliceOn(a, len) ==
    LET b == EnsureCapacityOn(a, len)
    IN  IF b.panicked THEN b ELSE [b EXCEPT !.start = PtrAdd(RawSliceDst(a, len), len)]

\* The slots of a region of len elements at dst.
Region(dst, len) == {<<dst.chunk, dst.off + k>> : k \in 0..(len - 1)}

\* <*mut T>::write
PtrWrite(m, p, v) == [q \in DOMAIN m \cup {<<p.chunk, p.off>>} |-> IF q = <<p.chunk, p.off>> THEN v ELSE m[q]]

\* <*const T>::copy_to_nonoverlapping(dst, len) from src
CopyToNonoverlapping(m, src, dst, len) ==
    [q \in DOMAIN m \cup Region(dst, len) |->
        IF q \in Region(dst, len) THEN src[q[2] - dst.off + 1] ELSE m[q]]

\* T::clone for the value types modelled (derived Clone).
Clone(v) == v

\* The loop of alloc_slice_clone writing every item to dst itself.
RECURSIVE CloneLoop_NoIndex(_, _, _, _)
CloneLoop_NoIndex(m, src, dst, index) ==
    IF index >= Len(src) THEN m
    ELSE CloneLoop_NoIndex(PtrWrite(m, dst, Clone(src[index + 1])), src, dst, index + 1)

\* The loop of alloc_slice_clone from `index` on.
RECURSIVE CloneLoop(_, _, _, _)
CloneLoop(m, src, dst, index) ==
    IF index >= Len(src) THEN m
    ELSE CloneLoop(PtrWrite(m, PtrAdd(dst, index), Clone(src[index + 1])), src, dst, index + 1)

\* The value a reference to slot <<c, o>> reads.
ReadSlot(m, c, o) == IF <<c, o>> \in DOMAIN m THEN m[<<c, o>>] ELSE Uninit

\* The content of a view (std::slice::from_raw_parts_mut(dst, len)).
ReadView(m, v) == [k \in 1..v.len |-> ReadSlot(m, v.chunk, v.off + k - 1)]

View(dst, len) == [chunk |-> dst.chunk, off |-> dst.off, len |-> len]

\* &mut []
EmptyView == View(Null, 0)

\* ------------------------------------------------------------------ UTF-8

\* The UTF-8 encoding of one scalar value below 65536.
EncodeChar(c) ==
    IF c < 128 THEN <<c>>
    ELSE IF c < 2048 THEN <<192 + (c \div 64), 128 + (c % 64)>>
    ELSE <<224 + (c \div 4096), 128 + ((c \div 64) % 64), 128 + (c % 64)>>

\* str::as_bytes
RECURSIVE as_bytes(_)
as_bytes(s) == IF s = <<>> THEN <<>> ELSE EncodeChar(Head(s)) \o as_bytes(Tail(s))

\* The characters of the str that std::str::from_utf8_unchecked_mut makes
\* of a byte slice (str::chars); a byte that starts no sequence ends it.
RECURSIVE from_utf8_unchecked_mut(_)
from_utf8_unchecked_mut(b) ==
    IF b = <<>> THEN <<>>
    ELSE IF b[1] >= 0 /\ b[1] < 128
        THEN <<b[1]>> \o from_utf8_unchecked_mut(SubSeq(b, 2, Len(b)))
    ELSE IF b[1] >= 192 /\ b[1] < 224 /\ Len(b) >= 2
        THEN <<(b[1] - 192) * 64 + (b[2] - 128)>> \o from_utf8_unchecked_mut(SubSeq(b, 3, Len(b)))
    ELSE IF b[1] >= 224 /\ b[1] < 240 /\ Len(b) >= 3
        THEN <<(b[1] - 224) * 4096 + (b[2] - 128) * 64 + (b[3] - 128)>>
                 \o from_utf8_unchecked_mut(SubSeq(b, 4, Len(b)))
    ELSE <<>>

\* ---------------------------------------------------------------- actions

NoCall == [op |-> "new", n |-> None, src |-> <<>>, ok |-> TRUE, view |-> EmptyView,
           reserved |-> None, panicked |-> FALSE]

\* A call record: the operation, its count argument, its source, the bool
\* it returned (can_allocate), the view it returned, the argument of the
\* reserve call it made, whether it unwound.
Call(op, n, src, ok, view, a) ==
    [op |-> op, n |-> n, src |-> src, ok |-> ok, view |-> view,
     reserved |-> a.reserved, panicked |-> a.panicked]

Handle(op, view, src) == [op |-> op, chunk |-> view.chunk, off |-> view.off, len |-> view.len, src |-> src]

\* The arena's fields after an operation that left the arena as `a`.
Commit(a) ==
    /\ start' = a.start
    /\ end' = a.end
    /\ chunks' = a.chunks
    /\ released' = [i \in 1..Len(a.chunks) |-> IF i <= Len(released) THEN released[i] ELSE 0]

\* No alloc_slice_clone loop is running.
NoClone == [active |-> FALSE, dst |-> Null, src |-> <<>>, index |-> 0]

\* new without its assertion.
NewOk_NoAssert(sz) == TRUE

\* The assertion of new: assert!(size_of::<T>() != 0).
NewOk(sz) == sz # 0

\* DroplessArena::new for an element size of `sizes`: an arena without
\* chunks and with a null window, or a panic and no arena.
New(sizes) ==
    /\ size \in sizes
    /\ start = Null
    /\ end = Null
    /\ chunks = <<>>
    /\ mem = <<>>
    /\ handles = <<>>
    /\ alive = NewOk(size)
    /\ released = <<>>
    /\ dropped = {}
    /\ last = [NoCall EXCEPT !.panicked = ~NewOk(size)]
    /\ nops = 0
    /\ cloning = NoClone

Init == New(ElemSizes)

\* An operation can be called: the arena has not been dropped.
Ready == alive

\* can_allocate(additional)
CanAllocate(additional) ==
    /\ Ready
    /\ nops' = nops + 1
    /\ last' = Call("can_allocate", additional, <<>>,
                    IF CanAllocatePanics(additional) THEN FALSE ELSE can_allocate(additional),
                    EmptyView,
                    IF CanAllocatePanics(additional) THEN Panicked(Self) ELSE Self)
    /\ UNCHANGED <<size, start, end, chunks, mem, handles, alive, released, dropped, cloning>>

\* ensure_capacity(additional)
EnsureCapacity(additional) ==
    LET a == EnsureCapacityOn(Self, additional)
    IN  /\ Ready
        /\ nops' = nops + 1
        /\ Commit(a)
        /\ last' = Call("ensure_capacity", additional, <<>>, TRUE, EmptyView, a)
        /\ UNCHANGED <<size, mem, handles, alive, dropped, cloning>>

\* reserve(additional)
Reserve(additional) ==
    LET a == ReserveOn(Self, additional)
    IN  /\ Ready
        /\ nops' = nops + 1
        /\ Commit(a)
        /\ last' = Call("reserve", additional, <<>>, TRUE, EmptyView, a)
        /\ UNCHANGED <<size, mem, handles, alive, dropped, cloning>>

\* alloc that leaves `start` where it was.
AllocOn_NoBump(a) == IF a.start = a.end THEN ReserveOn(a, 1) ELSE a

\* alloc(src): the arena after the call.
AllocOn(a) ==
    LET b == IF a.start = a.end THEN ReserveOn(a, 1) ELSE a
    IN  IF b.panicked THEN b ELSE [b EXCEPT !.start = PtrAdd(b.start, 1)]

\* alloc(src): the slot written and returned.
AllocDst(a) == IF a.start = a.end THEN ReserveOn(a, 1).start ELSE a.start

Alloc(src) ==
    LET a == AllocOn(Self)
        view == View(AllocDst(Self), 1)
    IN  /\ Ready
        /\ nops' = nops + 1
        /\ Commit(a)
        /\ IF a.panicked
           THEN /\ last' = Call("alloc", None, <<src>>, TRUE, EmptyView, a)
                /\ UNCHANGED <<mem, handles>>
           ELSE /\ mem' = PtrWrite(mem, AllocDst(Self), src)
                /\ handles' = Append(handles, Handle("alloc", view, <<src>>))
                /\ last' = Call("alloc", None, <<src>>, TRUE, view, a)
        /\ UNCHANGED <<size, alive, dropped, cloning>>

\* alloc_slice_copy(src): the memory after the call.
SliceCopyMem(m, a, src) ==
    IF Len(src) = 0 \/ AllocRawSliceOn(a, Len(src)).panicked THEN m
    ELSE CopyToNonoverlapping(m, src, RawSliceDst(a, Len(src)), Len(src))

\* alloc_slice_clone(src): the memory after the call.
SliceCloneMem(m, a, src) ==
    IF Len(src) = 0 \/ AllocRawSliceOn(a, Len(src)).panicked THEN m
    ELSE CloneLoop(m, src, RawSliceDst(a, Len(src)), 0)

\* A bulk allocation that reserves a chunk for src without looking at it.
SliceOn_AlwaysReserve(a, src) ==
    IF ReserveOn(a, Len(src)).panicked THEN ReserveOn(a, Len(src))
    ELSE [ReserveOn(a, Len(src)) EXCEPT !.start = PtrAdd(@, Len(src))]

\* alloc_slice_copy / alloc_slice_clone: the arena after the call.
SliceOn(a, src) == IF Len(src) = 0 THEN a ELSE AllocRawSliceOn(a, Len(src))

\* alloc_slice_copy / alloc_slice_clone: the view returned.
SliceView(a, src) ==
    IF Len(src) = 0 THEN EmptyView ELSE View(RawSliceDst(a, Len(src)), Len(src))

\* A bulk allocation `op` of the elements `elems`, called with `src`.
Bulk(op, src, elems, m) ==
    LET a == SliceOn(Self, elems)
    IN  /\ Ready
        /\ nops' = nops + 1
        /\ Commit(a)
        /\ IF a.panicked
           THEN /\ last' = Call(op, None, src, TRUE, EmptyView, a)
                /\ UNCHANGED <<mem, handles>>
           ELSE /\ mem' = m
                /\ handles' = Append(handles, Handle(op, SliceView(Self, elems), src))
                /\ last' = Call(op, None, src, TRUE, SliceView(Self, elems), a)
        /\ UNCHANGED <<size, alive, dropped, cloning>>

AllocSliceCopy(src) == Bulk("alloc_slice_copy", src, src, SliceCopyMem(mem, Self, src))

AllocSliceClone(src) == Bulk("alloc_slice_clone", src, src, SliceCloneMem(mem, Self, src))

\* alloc_str that allocates one byte per character.
AllocStr_PerChar(src) ==
    /\ size = 1
    /\ Bulk("alloc_str", src, src, SliceCopyMem(mem, Self, src))

\* alloc_str(src), of DroplessArena<u8>
AllocStr(src) ==
    /\ size = 1
    /\ Bulk("alloc_str", src, as_bytes(src), SliceCopyMem(mem, Self, as_bytes(src)))

\* Dropping a MaybeUninit<T>: the slots whose value's destructor it runs
\* (none: MaybeUninit never drops its content).
MaybeUninitDrop(slot) == {}

\* A chunk whose storage is not given back.
ChunkDropReleased_Leak(r, i) == r

\* <Chunk as Drop>::drop for chunk i: Box::from_raw(storage) is dropped,
\* which deallocates the storage once ...
ChunkDropReleased(r, i) == [r EXCEPT ![i] = @ + 1]

\* ... after dropping its MaybeUninit<T> elements (of which the ones that
\* hold a stored value are followed here).
ChunkDropElements(m, i) == UNION {MaybeUninitDrop(q) : q \in {p \in DOMAIN m : p[1] = i}}

\* Dropping Vec<Chunk<T>> drops the chunks in order, from chunk i on.
RECURSIVE DropChunks(_, _, _)
DropChunks(r, cs, i) ==
    IF i > Len(cs) THEN r ELSE DropChunks(ChunkDropReleased(r, i), cs, i + 1)

\* The arena goes out of scope: its fields are dropped.
DropArena ==
    /\ alive
    /\ alive' = FALSE
    /\ released' = DropChunks(released, chunks, 1)
    /\ dropped' = dropped \cup UNION {ChunkDropElements(mem, i) : i \in 1..Len(chunks)}
    /\ last' = [NoCall EXCEPT !.op = "drop"]
    /\ UNCHANGED <<size, start, end, chunks, mem, handles, nops, cloning>>

\* Counts passed to can_allocate, ensure_capacity and reserve.
Counts == {0, 1, MaxN}

\* More calls may be made in this behaviour.
More == nops < MaxOps

Next ==
    \/ More /\ \E n \in Counts : CanAllocate(n)
    \/ More /\ \E n \in Counts : EnsureCapacity(n)
    \/ More /\ \E n \in Counts : Reserve(n)
    \/ More /\ \E v \in Values : Alloc(v)
    \/ More /\ \E s \in Slices : AllocSliceCopy(s)
    \/ More /\ \E s \in Slices : AllocSliceClone(s)
    \/ More /\ \E s \in Strs : AllocStr(s)

\* The operations of a live arena.
Spec == Init /\ [][Next]_vars

NextDrop ==
    \/ Next
    \/ DropArena

\* The operations of an arena and its destruction.
SpecDrop == Init /\ [][NextDrop]_vars

\* Element sizes of the arenas filled one element at a time: records of
\* 1 KiB and 2 KiB, and records for which HUGE_PAGE / size / 2 is 2, 1
\* and 0.
ElemSizesAlloc == {1024, 2048, 524288, 1048576, 2097152, 536870912}

InitAlloc == New(ElemSizesAlloc)

NextAlloc == nops < MaxAllocs /\ Alloc(65)

\* A fresh arena on which only alloc is called.
SpecAlloc == InitAlloc /\ [][NextAlloc]_vars

\* Element sizes of the arenas on which counts near the machine word are
\* tried: a 1 KiB record, and one of which four overflow the word.
ElemSizesWord == {1024, 536870912}

\* Source slices of MaxN elements.
LongSlices == {s \in RunsOf(<<65, 66>>, MaxN) : Len(s) = MaxN}

InitWord == New(ElemSizesWord)

NextWord ==
    \/ More /\ \E n \in Counts : CanAllocate(n)
    \/ More /\ \E n \in Counts : EnsureCapacity(n)
    \/ More /\ \E n \in Counts : Reserve(n)
    \/ More /\ \E v \in Values : Alloc(v)
    \/ More /\ \E s \in Slices \cup LongSlices : AllocSliceCopy(s)
    \/ More /\ \E s \in Slices \cup LongSlices : AllocSliceClone(s)

\* Arenas of records, with bulk allocations of up to MaxN elements.
SpecWord == InitWord /\ [][NextWord]_vars

\* Arenas constructed for any element type, zero-sized ones included.
InitNew == New(ElemSizes \cup {0})

SpecNew == InitNew /\ [][Next]_vars

\* alloc_slice_clone(src), non-empty src, up to the loop: alloc_raw_slice
\* has returned dst and no element has been cloned yet.  (With an empty
\* src the call returns before it; see AllocSliceClone.)
CloneBegin(src) ==
    LET a == SliceOn(Self, src)
    IN  /\ Ready
        /\ ~cloning.active
        /\ Len(src) > 0
        /\ nops' = nops + 1
        /\ Commit(a)
        /\ last' = Call("alloc_slice_clone", None, src, TRUE, EmptyView, a)
        /\ cloning' = IF a.panicked THEN cloning
                      ELSE [active |-> TRUE, dst |-> RawSliceDst(Self, Len(src)),
                            src |-> src, index |-> 0]
        /\ UNCHANGED <<size, mem, handles, alive, dropped>>

\* One turn of the loop of alloc_slice_clone, after the element's clone()
\* has returned: dst.add(index).write(item); after the last element the
\* call returns the slice.
CloneStep ==
    LET done == cloning.index + 1 = Len(cloning.src)
        view == View(cloning.dst, Len(cloning.src))
    IN  /\ Ready
        /\ cloning.active
        /\ mem' = PtrWrite(mem, PtrAdd(cloning.dst, cloning.index), Clone(cloning.src[cloning.index + 1]))
        /\ cloning' = IF done THEN NoClone ELSE [cloning EXCEPT !.index = @ + 1]
        /\ handles' = IF done THEN Append(handles, Handle("alloc_slice_clone", view, cloning.src))
                      ELSE handles
        /\ last' = IF done THEN Call("alloc_slice_clone", None, cloning.src, TRUE, view, Self)
                   ELSE last
        /\ UNCHANGED <<size, start, end, chunks, alive, released, dropped, nops>>

\* Element sizes of the arenas whose elements' clone() calls back into the
\* arena: a 1 KiB record and a 512 KiB record.
ElemSizesClone == {1024, 524288}

InitClone == New(ElemSizesClone)

\* alloc_slice_clone in steps; the other calls are made by the caller
\* between calls or by an element's clone() while the loop runs.
NextClone ==
    \/ More /\ \E s \in Slices : CloneBegin(s)
    \/ CloneStep
    \/ More /\ \E v \in Values : Alloc(v)
    \/ More /\ \E s \in Slices : AllocSliceCopy(s)
    \/ More /\ \E n \in Counts : Reserve(n)

SpecClone == InitClone /\ [][NextClone]_vars

\* ----------------------------------------------------------------- claims

\* The view a handle names.
ViewOf(h) == [chunk |-> h.chunk, off |-> h.off, len |-> h.len]

\* Two views share no slot.
Disjoint(g, h) ==
    \/ g.len = 0
    \/ h.len = 0
    \/ g.chunk # h.chunk
    \/ g.off + g.len <= h.off
    \/ h.off + h.len <= g.off

\* C1: the element ranges returned by any two distinct allocation calls
\* (alloc, alloc_slice_copy, alloc_slice_clone, alloc_str, interleaved with
\* reserve, ensure_capacity and can_allocate) are pairwise disjoint.
C1_PairwiseDisjoint ==
    \A i, j \in 1..Len(handles) : i < j => Disjoint(handles[i], handles[j])

\* Three allocations, the first two carved from the same chunk and the
\* third, of two elements, from a chunk acquired later.
C1_Witness ==
    /\ Len(handles) = 3
    /\ handles[1].len > 0
    /\ handles[2].len > 0
    /\ handles[1].chunk = handles[2].chunk
    /\ handles[3].len = 2
    /\ handles[3].chunk > handles[2].chunk

\* C2: the slot alloc(v) returned holds v right after the call and after
\* every later operation of the arena.
C2_AllocContentStable ==
    \A i \in 1..Len(handles) :
        handles[i].op = "alloc" => ReadView(mem, ViewOf(handles[i])) = handles[i].src

\* An alloc followed by two more calls, one of which acquired a chunk and
\* one of which wrote another value next to the first.
C2_Witness ==
    /\ nops = 3
    /\ Len(handles) >= 2
    /\ handles[1].op = "alloc"
    /\ handles[2].chunk = handles[1].chunk
    /\ handles[2].src # handles[1].src
    /\ Len(chunks) >= 2

\* C3: alloc_slice_copy(src) and alloc_slice_clone(src), for non-empty src,
\* return a view of src.len() elements whose i-th element is src[i].
C3_SliceContent ==
    (/\ last.op \in {"alloc_slice_copy", "alloc_slice_clone"}
     /\ ~last.panicked
     /\ Len(last.src) > 0)
    => /\ last.view.len = Len(last.src)
       /\ \A i \in 1..Len(last.src) : ReadSlot(mem, last.view.chunk, last.view.off + i - 1) = last.src[i]

\* alloc_slice_clone of two different elements that had to acquire a chunk
\* in an arena that already had one.
C3_Witness ==
    /\ last.op = "alloc_slice_clone"
    /\ Len(last.src) = 2
    /\ last.src[1] # last.src[2]
    /\ last.reserved = 2
    /\ Len(chunks) >= 2

\* C4: after ensure_capacity(n) returns, can_allocate(n) is true; on an
\* arena without a chunk can_allocate(n) is false for every n >= 1.
C4_EnsureThenCanAllocate ==
    /\ (last.op = "ensure_capacity" /\ ~last.panicked)
       => (~CanAllocatePanics(last.n) /\ can_allocate(last.n))
    /\ chunks = <<>>
       => \A n \in 1..MaxN : ~CanAllocatePanics(n) => ~can_allocate(n)

\* ensure_capacity(n), n >= 1, returned after acquiring a chunk whose
\* capacity is n because the doubling rule alone gave less.
C4_Witness ==
    /\ last.op = "ensure_capacity"
    /\ ~last.panicked
    /\ last.n >= 1
    /\ last.reserved = last.n
    /\ chunks[Len(chunks)] = last.n

\* The argument of the reserve call made by the step, None if it made none.
Reserved == last'.reserved

\* The step acquired a chunk.
Grew == Len(chunks') = Len(chunks) + 1

\* C5: a chunk is acquired only by reserve(additional), and its capacity is
\* max(additional, baseline), where baseline is PAGE / size with no chunk
\* and min(capacity of the latest chunk, HUGE_PAGE / size / 2) * 2 otherwise.
C5_GrowthPolicy ==
    [][/\ Len(chunks') \in {Len(chunks), Len(chunks) + 1}
       /\ Grew <=> (nops' = nops + 1 /\ Reserved # None)
       /\ Grew =>
            chunks'[Len(chunks')] =
                Max(Reserved,
                    IF chunks = <<>> THEN PAGE \div size
                    ELSE Min(chunks[Len(chunks)], (HUGE_PAGE \div size) \div 2) * 2)]_vars

\* reserve(0) after a chunk of 4 elements whose doubling the cap limits:
\* min(4, 2) * 2 = 4.
C5_Witness ==
    /\ size = 524288
    /\ last.op = "reserve"
    /\ last.reserved = 0
    /\ chunks = <<4, 4>>

\* C6: every chunk ever acquired has a capacity of at least one element,
\* for every element size and every argument of reserve.
C6_ChunksNonEmpty == \A i \in 1..Len(chunks) : chunks[i] >= 1

\* The slots of chunk c handed out so far.
HandedOut(c) ==
    UNION {Region([chunk |-> handles[i].chunk, off |-> handles[i].off], handles[i].len) :
               i \in {k \in 1..Len(handles) : handles[k].chunk = c}}

\* Every slot of the current chunk has been handed out.
CurrentChunkFull == Cardinality(HandedOut(Len(chunks))) = chunks[Len(chunks)]

\* HUGE_PAGE / element_size / 2
HugeCap == (HUGE_PAGE \div size) \div 2

\* C7 as stated: with only alloc calls, a chunk is acquired exactly when
\* there is no chunk or every slot of the current one has been handed out,
\* and a new chunk's capacity is double the previous one's until that
\* exceeds HUGE_PAGE / size / 2, and (HUGE_PAGE / size / 2) * 2 from then on.
C7_DoublingAsStated ==
    [][nops' = nops + 1 =>
        /\ Grew <=> (chunks = <<>> \/ CurrentChunkFull)
        /\ (Grew /\ chunks # <<>>) =>
             chunks'[Len(chunks')] =
                 IF chunks[Len(chunks)] <= HugeCap THEN chunks[Len(chunks)] * 2
                 ELSE HugeCap * 2]_vars

\* C7, amended: ... and max(1, (HUGE_PAGE / size / 2) * 2) from then on.
C7_Doubling ==
    [][nops' = nops + 1 =>
        /\ Grew <=> (chunks = <<>> \/ CurrentChunkFull)
        /\ (Grew /\ chunks # <<>>) =>
             chunks'[Len(chunks')] =
                 IF chunks[Len(chunks)] <= HugeCap THEN chunks[Len(chunks)] * 2
                 ELSE Max(1, HugeCap * 2)]_vars

\* Eight allocs of 512 KiB elements: chunks of 1, 2 and 4 elements filled
\* to the last slot, and a fourth chunk that the cap keeps at 4.
C7_Witness ==
    /\ size = 524288
    /\ chunks = <<1, 2, 4, 4>>
    /\ Len(handles) = 8
    /\ start.off = 1

\* C8: alloc_slice_copy, alloc_slice_clone and alloc_str of an empty source
\* return an empty view and leave start, end and the chunks as they were.
C8_EmptySourceNoEffect ==
    [][(/\ nops' = nops + 1
        /\ last'.op \in {"alloc_slice_copy", "alloc_slice_clone", "alloc_str"}
        /\ last'.src = <<>>)
       => /\ ~last'.panicked
          /\ last'.view.len = 0
          /\ Len(handles') = Len(handles) + 1
          /\ start' = start
          /\ end' = end
          /\ chunks' = chunks
          /\ mem' = mem]_vars

\* alloc_slice_copy(&[]) on an arena that has no chunk.
C8_Witness ==
    /\ last.op = "alloc_slice_copy"
    /\ last.src = <<>>
    /\ chunks = <<>>
    /\ start = Null
    /\ nops = 1

\* C9: every string alloc_str returned has exactly the bytes of its source,
\* reads back as its source, and overlaps no string returned earlier.
C9_StrRoundTrip ==
    \A i \in 1..Len(handles) :
        handles[i].op = "alloc_str" =>
            /\ ReadView(mem, ViewOf(handles[i])) = as_bytes(handles[i].src)
            /\ from_utf8_unchecked_mut(ReadView(mem, ViewOf(handles[i]))) = handles[i].src
            /\ \A j \in 1..(i - 1) :
                   handles[j].op = "alloc_str" => Disjoint(handles[j], handles[i])

\* Two different strings with multi-byte characters, one after the other
\* in the same chunk, and a third call after them.
C9_Witness ==
    /\ nops = 3
    /\ Len(handles) >= 2
    /\ handles[1].op = "alloc_str"
    /\ handles[2].op = "alloc_str"
    /\ handles[1].src # handles[2].src
    /\ Len(handles[1].src) = 2
    /\ handles[1].len > 2
    /\ handles[2].len > 2
    /\ handles[2].chunk = handles[1].chunk

\* C10: no chunk is released while the arena is alive; once it is dropped
\* every chunk it acquired has been released exactly once; no destructor
\* of a stored value is ever run.
C10_ReleasedOnceAtDrop ==
    /\ Len(released) = Len(chunks)
    /\ alive => \A i \in 1..Len(chunks) : released[i] = 0
    /\ ~alive => \A i \in 1..Len(chunks) : released[i] = 1
    /\ dropped = {}

\* A dropped arena that had acquired two chunks and stored values.
C10_Witness ==
    /\ ~alive
    /\ Len(chunks) >= 2
    /\ DOMAIN mem # {}
    /\ \A i \in 1..Len(chunks) : released[i] = 1

\* The elements that fit the window.
Free == end.off - start.off

\* n * size_of::<T>() exceeds the machine word.
Overflows(n) == n > USIZE_MAX \div size

\* C11: can_allocate(n) returns true exactly when the window holds at least
\* n elements' bytes; when n * size overflows, can_allocate(n),
\* ensure_capacity(n) and a bulk allocation of n elements panic, acquire no
\* chunk and leave start and end as they were.
C11_CanAllocateOrOverflow ==
    [][nops' = nops + 1 =>
        /\ last'.op = "can_allocate" =>
             /\ last'.panicked <=> Overflows(last'.n)
             /\ ~last'.panicked => (last'.ok <=> Free >= last'.n)
        /\ (last'.op \in {"can_allocate", "ensure_capacity"} /\ Overflows(last'.n)) =>
             (last'.panicked /\ UNCHANGED <<start, end, chunks, mem, handles>>)
        /\ (last'.op \in {"alloc_slice_copy", "alloc_slice_clone"} /\ Overflows(Len(last'.src))) =>
             (last'.panicked /\ UNCHANGED <<start, end, chunks, mem, handles>>)]_vars

\* A bulk allocation of MaxN elements of 512 MiB panicked on an arena whose
\* only chunk had been used.
C11_Witness ==
    /\ size = 536870912
    /\ last.op = "alloc_slice_clone"
    /\ Len(last.src) = MaxN
    /\ last.panicked
    /\ chunks = <<1>>
    /\ start.off = 1

\* C12: new panics when size_of::<T>() is 0 and leaves no arena to call;
\* for every other size it returns an arena without chunks whose start and
\* end are null.
C12_NewAssertsNonZeroSize ==
    /\ size = 0 => (~alive /\ last.op = "new" /\ last.panicked /\ nops = 0 /\ chunks = <<>>)
    /\ (size # 0 /\ nops = 0) =>
         (alive /\ ~last.panicked /\ chunks = <<>> /\ start = Null /\ end = Null)

\* new was called for a zero-sized element type and panicked.
C12_Witness == size = 0 /\ last.op = "new" /\ last.panicked

\* C13: start <= end; with no chunk both are null, otherwise [start, end)
\* lies in the storage of the chunk acquired last and end is that chunk's
\* one-past-the-end pointer.
C13_WindowInvariant ==
    /\ start.chunk = end.chunk
    /\ start.off <= end.off
    /\ IF chunks = <<>>
       THEN start = Null /\ end = Null
       ELSE /\ start.chunk = Len(chunks)
            /\ start.off >= 0
            /\ end = [chunk |-> Len(chunks), off |-> chunks[Len(chunks)]]

\* A partly used window in a chunk that is not the first.
C13_Witness ==
    /\ Len(chunks) >= 2
    /\ start.off > 0
    /\ start.off < end.off
    /\ Len(handles) >= 1

\* C14: the window is always empty or has room for a whole element, and
\* the slot alloc writes lies before `end`, inside the chunk acquired last.
C14_AllocWritesInsideWindow ==
    [][/\ (start' = end' \/ AvailableBytes(start', end') >= size)
       /\ (nops' = nops + 1 /\ last'.op = "alloc" /\ ~last'.panicked) =>
            /\ last'.view.chunk = Len(chunks')
            /\ last'.view.chunk = end'.chunk
            /\ last'.view.off >= 0
            /\ last'.view.off < end'.off
            /\ last'.view.off + 1 <= chunks'[Len(chunks')]
            /\ <<last'.view.chunk, last'.view.off>> \in DOMAIN mem'
            /\ start' = [chunk |-> last'.view.chunk, off |-> last'.view.off + 1]]_vars

\* alloc on a window left empty by a chunk of no elements (reserve(0) with
\* 512 KiB elements): it acquired a chunk of one element and filled it.
C14_Witness ==
    /\ chunks = <<0, 1>>
    /\ last.op = "alloc"
    /\ ~last.panicked
    /\ last.reserved = 1
    /\ start = end

\* C15: the chunks are append-only: a step leaves them as they were or adds
\* one at the end; every reserve call that returns adds exactly one and
\* sets the window to all of it (less what the calling allocation took).
C15_ChunksAppendOnly ==
    [][/\ \/ chunks' = chunks
          \/ /\ Len(chunks') = Len(chunks) + 1
             /\ SubSeq(chunks', 1, Len(chunks)) = chunks
       /\ (nops' = nops + 1 /\ last'.op = "reserve" /\ ~last'.panicked) =>
            /\ last'.reserved = last'.n
            /\ end'.off - start'.off = chunks'[Len(chunks')]
       /\ (nops' = nops + 1 /\ last'.reserved # None) =>
            /\ Len(chunks') = Len(chunks) + 1
            /\ end' = [chunk |-> Len(chunks'), off |-> chunks'[Len(chunks')]]
            /\ start' = [chunk |-> Len(chunks'), off |-> last'.view.len]
       /\ (nops' = nops + 1 /\ last'.reserved = None) => chunks' = chunks]_vars

\* A third chunk pushed by reserve on an arena that holds a value: the
\* window is the whole new chunk.
C15_Witness ==
    /\ Len(chunks) = 3
    /\ last.op = "reserve"
    /\ start = [chunk |-> 3, off |-> 0]
    /\ end.off = chunks[3]
    /\ chunks[3] >= 1
    /\ Len(handles) = 1

BulkOps == {"alloc_slice_copy", "alloc_slice_clone", "alloc_str"}

\* The elements a bulk allocation call asks for.
BulkCount(c) == IF c.op = "alloc_str" THEN Len(as_bytes(c.src)) ELSE Len(c.src)

\* C16: ensure_capacity(n) and a bulk allocation of n >= 1 elements acquire
\* no chunk when the window has n free elements (ensure_capacity then
\* changes nothing, the bulk allocation advances start by n) and acquire
\* exactly one chunk otherwise.
C16_GrowthOnlyWhenNeeded ==
    [][(nops' = nops + 1 /\ ~last'.panicked) =>
        /\ last'.op = "ensure_capacity" =>
             IF Free >= last'.n
             THEN UNCHANGED <<start, end, chunks>>
             ELSE Len(chunks') = Len(chunks) + 1
        /\ (last'.op \in BulkOps /\ BulkCount(last') >= 1) =>
             IF Free >= BulkCount(last')
             THEN /\ chunks' = chunks
                  /\ end' = end
                  /\ start' = PtrAdd(start, BulkCount(last'))
             ELSE Len(chunks') = Len(chunks) + 1]_vars

\* A bulk allocation of two elements served from a window that had room,
\* after one that had to acquire the chunk.
C16_Witness ==
    /\ last.op = "alloc_slice_clone"
    /\ Len(last.src) = 2
    /\ last.reserved = None
    /\ last.view.off > 0
    /\ Len(chunks) = 1
    /\ Len(handles) >= 2

\* C17: every non-empty range returned lies inside the storage of one
\* chunk: it starts in it and ends at or before its end.
C17_RangeInsideOneChunk ==
    \A i \in 1..Len(handles) :
        handles[i].len > 0 =>
            /\ handles[i].chunk \in 1..Len(chunks)
            /\ handles[i].off >= 0
            /\ handles[i].off + handles[i].len <= chunks[handles[i].chunk]

\* A bulk allocation of two elements when the window had one slot left:
\* the slot is abandoned and the range lies in a new chunk.
C17_Witness ==
    /\ Len(handles) = 3
    /\ handles[2].chunk = 2
    /\ handles[2].off + handles[2].len = chunks[2] - 1
    /\ handles[3].len = 2
    /\ handles[3].chunk = 3
    /\ handles[3].off = 0

\* The region the running alloc_slice_clone is filling.
CloneRegion == View(cloning.dst, Len(cloning.src))

\* C18: while the loop of alloc_slice_clone runs, the whole destination is
\* already behind `start` and inside one chunk, every range handed out
\* (before the call or by an element's clone()) is disjoint from it and
\* keeps its content, and the elements written so far are in place.
C18_CloneRegionReserved ==
    /\ cloning.active =>
         /\ cloning.dst.chunk \in 1..Len(chunks)
         /\ cloning.dst.off + Len(cloning.src) <= chunks[cloning.dst.chunk]
         /\ start.chunk > cloning.dst.chunk \/ start.off >= cloning.dst.off + Len(cloning.src)
         /\ \A i \in 1..Len(handles) : Disjoint(handles[i], CloneRegion)
         /\ \A k \in 1..cloning.index :
                ReadSlot(mem, cloning.dst.chunk, cloning.dst.off + k - 1) = cloning.src[k]
    /\ \A i \in 1..Len(handles) : ReadView(mem, ViewOf(handles[i])) = handles[i].src

\* alloc_slice_clone of two elements returned after an element's clone()
\* had called alloc, which found the window empty and acquired a chunk:
\* the alloc's slot was returned first and lies in the later chunk.
C18_Witness ==
    /\ ~cloning.active
    /\ last.op = "alloc_slice_clone"
    /\ Len(handles) = 2
    /\ handles[1].op = "alloc"
    /\ handles[2].op = "alloc_slice_clone"
    /\ handles[2].len = 2
    /\ handles[1].chunk > handles[2].chunk

====
